---- MODULE Spec2Model ----
(***************************************************************************)
(* A model of aioneo4j: the Client facade (client.py) and the Transport    *)
(* that performs one HTTP exchange per call (transport.py).                *)
(*                                                                         *)
(* Python values are records tagged by `kind`.  A str is the sequence of   *)
(* its characters (or lexical tokens, for a response text).  A coroutine   *)
(* runs without interruption between two awaits, so every action below is  *)
(* one such run: from a call to `await self.session.request(...)`, from    *)
(* there to `await response.text()`, and from there to the end.            *)
(***************************************************************************)
EXTENDS Integers, Sequences, FiniteSets, TLC

(***************************************************************************)
(* Python values                                                           *)
(***************************************************************************)
None == [kind |-> "None"]
Ellipsis == [kind |-> "Ellipsis"]
PyStr(chars) == [kind |-> "str", s |-> chars]
PyInt(n) == [kind |-> "int", n |-> n]
PyFloat(n) == [kind |-> "float", n |-> n]
PyBool(b) == [kind |-> "bool", b |-> b]
PyList(items) == [kind |-> "list", items |-> items]
PyTuple(items) == [kind |-> "tuple", items |-> items]
PyDict(map) == [kind |-> "dict", map |-> map]
PyBytes(of) == [kind |-> "bytes", of |-> of]
\* an object json.dumps cannot serialise
PyObject == [kind |-> "object"]

EmptyMap == [k \in {} |-> None]
Map1(k, v) == [x \in {k} |-> v]
Map2(k1, v1, k2, v2) == [x \in {k1, k2} |-> IF x = k1 THEN v1 ELSE v2]

\* bool(v)
Truthy(v) ==
    CASE v.kind = "None" -> FALSE
      [] v.kind = "str" -> v.s /= <<>>
      [] v.kind = "int" -> v.n /= 0
      [] v.kind = "float" -> v.n /= 0
      [] v.kind = "bool" -> v.b
      [] v.kind = "list" -> v.items /= <<>>
      [] v.kind = "tuple" -> v.items /= <<>>
      [] v.kind = "dict" -> DOMAIN v.map /= {}
      [] v.kind = "bytes" -> TRUE
      [] OTHER -> TRUE

\* isinstance(v, collections.Mapping)
IsMapping(v) == v.kind = "dict"

\* isinstance(v, collections.Sequence), for a v that is not a str
IsSequence(v) == v.kind \in {"list", "tuple"}

\* `a or b`
PyOr(a, b) == IF Truthy(a) THEN a ELSE b

\* d.get(key)
DictGet(d, key) == IF key \in DOMAIN d.map THEN d.map[key] ELSE None

(***************************************************************************)
(* Exceptions                                                              *)
(***************************************************************************)
Exc(type, args) == [exc |-> type, args |-> args]
NoExc == Exc("none", <<>>)

\* The module aioneo4j.errors: its ClientError is a class of this package and
\* no subclass of aiohttp.ClientError, so `except ClientError` (the aiohttp
\* class imported at transport.py:8) lets it through.
IsAiohttpClientError(type) == type = "aiohttp.ClientError"

(***************************************************************************)
(* str.split(sep) on a sequence of characters                              *)
(***************************************************************************)
RECURSIVE SplitFrom(_, _, _, _)
SplitFrom(chars, sep, i, cur) ==
    IF i > Len(chars) THEN <<cur>>
    ELSE IF chars[i] = sep THEN <<cur>> \o SplitFrom(chars, sep, i + 1, <<>>)
    ELSE SplitFrom(chars, sep, i + 1, Append(cur, chars[i]))

Split(chars, sep) == SplitFrom(chars, sep, 1, <<>>)

(***************************************************************************)
(* Transport.auth (transport.py:54-70)                                     *)
(***************************************************************************)
BasicAuth(login, password) ==
    [kind |-> "BasicAuth", login |-> login, password |-> password]

\* The setter: the exception it raises, if any, and the value it stores.
set_auth(a) ==
    IF a = None THEN [raised |-> NoExc, value |-> None]
    ELSE IF a.kind = "str" THEN
        LET parts == Split(a.s, ":") IN
        IF Len(parts) = 2
        THEN [raised |-> NoExc,
              value |-> BasicAuth(PyStr(parts[1]), PyStr(parts[2]))]
        ELSE [raised |-> Exc("ValueError", <<>>), value |-> None]
    ELSE IF IsSequence(a) THEN
        IF Len(a.items) = 2
        THEN [raised |-> NoExc, value |-> BasicAuth(a.items[1], a.items[2])]
        ELSE [raised |-> Exc("ValueError", <<>>), value |-> None]
    ELSE [raised |-> Exc("UnboundLocalError", <<>>), value |-> None]

\* Transport.headers
headers ==
    [ContentType |-> "application/json",
     Accept |-> "application/json; charset=UTF-8"]

(***************************************************************************)
(* The codec: json.dumps and json.loads, the defaults of Transport         *)
(***************************************************************************)
RECURSIVE Serialisable(_)
Serialisable(v) ==
    CASE v.kind \in {"None", "str", "int", "float", "bool"} -> TRUE
      [] v.kind \in {"list", "tuple"} ->
            \A i \in 1..Len(v.items) : Serialisable(v.items[i])
      [] v.kind = "dict" -> \A k \in DOMAIN v.map : Serialisable(v.map[k])
      [] OTHER -> FALSE

\* The str json.dumps returns for v: never empty, and no two values share one.
JsonText(v) == [kind |-> "jsontext", of |-> v]

\* json.dumps: the JSON text of a value
encoder(v) ==
    IF Serialisable(v)
    THEN [raised |-> NoExc, value |-> JsonText(v)]
    ELSE [raised |-> Exc("TypeError", <<>>), value |-> None]

\* The response texts of the model, as token sequences.
TextEmpty == PyStr(<<>>)
TextEmptyObject == PyStr(<<"{", "}">>)
TextEmptyArray == PyStr(<<"[", "]">>)
TextZero == PyStr(<<"0">>)
TextFalse == PyStr(<<"false">>)
TextNull == PyStr(<<"null">>)
TextArray == PyStr(<<"[", "r", "]">>)
TextResults == PyStr(<<"{", "results", ":", "[", "r", "]", "}">>)
TextNoErrors == PyStr(<<"{", "errors", ":", "[", "]", "}">>)
TextErrors == PyStr(<<"{", "errors", ":", "[", "e", "]", "}">>)
TextHtml == PyStr(<<"<", "html", ">">>)

\* json.loads on those texts
decoder(text) ==
    LET ok(v) == [raised |-> NoExc, value |-> v] IN
    CASE text = TextEmptyObject -> ok(PyDict(EmptyMap))
      [] text = TextEmptyArray -> ok(PyList(<<>>))
      [] text = TextZero -> ok(PyInt(0))
      [] text = TextFalse -> ok(PyBool(FALSE))
      [] text = TextNull -> ok(None)
      [] text = TextArray -> ok(PyList(<<PyStr(<<"r">>)>>))
      [] text = TextResults ->
            ok(PyDict(Map1("results", PyList(<<PyStr(<<"r">>)>>))))
      [] text = TextNoErrors -> ok(PyDict(Map1("errors", PyList(<<>>))))
      [] text = TextErrors ->
            ok(PyDict(Map1("errors", PyList(<<PyStr(<<"e">>)>>))))
      [] OTHER -> [raised |-> Exc("ValueError", <<>>), value |-> None]

\* encoder_errors and decoder_errors: (TypeError, ValueError)
IsCodecError(e) == e.exc \in {"TypeError", "ValueError"}

(***************************************************************************)
(* Client: the request each operation builds (client.py:50-142)            *)
(***************************************************************************)
Path(template, arg) == [template |-> template, arg |-> arg]

Built(method, path, data) ==
    [raised |-> NoExc, method |-> method, path |-> path, data |-> data]

Refused(type) ==
    [raised |-> Exc(type, <<>>), method |-> "", path |-> Path("", None),
     data |-> None]

\* client.py:72-78
cypher_request(query, params) ==
    IF IsMapping(query)
    THEN IF Truthy(params)
         THEN Refused("AssertionError")
         ELSE Built("POST", Path("db/data/cypher", None), query)
    ELSE Built("POST", Path("db/data/cypher", None),
               IF Truthy(params)
               THEN PyDict(Map2("query", query, "params", params))
               ELSE PyDict(Map1("query", query)))

\* commit_loop without the check of line 101: every mapping is appended
RECURSIVE commit_loop_unchecked(_, _, _)
commit_loop_unchecked(statements, i, acc) ==
    IF i > Len(statements) THEN [raised |-> NoExc, items |-> acc]
    ELSE LET statement == statements[i] IN
         commit_loop_unchecked(statements, i + 1,
             Append(acc, IF IsMapping(statement) THEN statement
                         ELSE PyDict(Map1("statement", statement))))

\* client.py:97-104, the loop over the statements from the i-th on
RECURSIVE commit_loop(_, _, _)
commit_loop(statements, i, acc) ==
    IF i > Len(statements) THEN [raised |-> NoExc, items |-> acc]
    ELSE LET statement == statements[i] IN
         IF ~IsMapping(statement)
         THEN commit_loop(statements, i + 1,
                          Append(acc, PyDict(Map1("statement", statement))))
         ELSE IF "statement" \notin DOMAIN statement.map
         THEN [raised |-> Exc("ValueError", <<>>), items |-> acc]
         ELSE commit_loop(statements, i + 1, Append(acc, statement))

\* client.py:92
IsStatementsForm(statements) ==
    /\ Len(statements) = 1
    /\ IsMapping(statements[1])
    /\ "statements" \in DOMAIN statements[1].map

\* client.py:92-104
transaction_commit_request(statements) ==
    IF IsStatementsForm(statements)
    THEN Built("POST", Path("db/data/transaction/commit", None), statements[1])
    ELSE LET r == commit_loop(statements, 1, <<>>) IN
         IF r.raised /= NoExc THEN Refused(r.raised.exc)
         ELSE Built("POST", Path("db/data/transaction/commit", None),
                    PyDict(Map1("statements", PyList(r.items))))

\* client.py:131-132
user_password_request(password, username) ==
    Built("POST", Path("user/{username}/password", username),
          PyDict(Map1("password", password)))

\* The (method, path, data) a Client operation hands to perform_request, or
\* the exception it raises before that.
ClientRequest(c) ==
    CASE c.op = "data" -> Built("GET", Path("db/data", None), None)
      [] c.op = "indexes" -> Built("GET", Path("db/data/schema/index", None), None)
      [] c.op = "constraints" ->
            Built("GET", Path("db/data/schema/constraint", None), None)
      [] c.op = "cypher" -> cypher_request(c.args.query, c.args.params)
      [] c.op = "transaction_commit" -> transaction_commit_request(c.args.statements)
      [] c.op = "user_password" ->
            user_password_request(c.args.password, c.args.username)

(***************************************************************************)
(* Transport.perform_request and _perform_request (transport.py:79-179)    *)
(***************************************************************************)
\* transport.py:137-146
EncodeData(data) ==
    IF data = None THEN [raised |-> NoExc, value |-> None]
    ELSE IF data.kind \in {"str", "bytes"}
    THEN [raised |-> NoExc,
          value |-> IF data.kind = "bytes" THEN data ELSE PyBytes(data)]
    ELSE LET e == encoder(data) IN
         IF e.raised = NoExc THEN [raised |-> NoExc, value |-> PyBytes(e.value)]
         ELSE IF IsCodecError(e.raised)
         THEN [raised |-> Exc("errors.SerializationError", <<>>), value |-> None]
         ELSE [raised |-> e.raised, value |-> None]

\* transport.py:149
RequestUrl(base, database, path) ==
    [base |-> base, db |-> database, path |-> path]

\* ResolveTimeout written `request_timeout or self.request_timeout`: an
\* explicit None falls back to the instance default too
ResolveTimeoutFalsy(per_call, instance_default) ==
    LET t == IF per_call \in {Ellipsis, None} THEN instance_default ELSE per_call
    IN IF t = Ellipsis THEN None ELSE t

\* transport.py:154-158
ResolveTimeout(per_call, instance_default) ==
    LET t == IF per_call = Ellipsis THEN instance_default ELSE per_call
    IN IF t = Ellipsis THEN None ELSE t

\* session.request called without the credentials
RequestAuthDropped(stored) == None

\* transport.py:91
RequestAuth(stored) == stored

\* transport.py:85-93, the arguments of session.request
SessionRequest(method, url, data, stored) ==
    [method |-> method, url |-> url, params |-> None, data |-> data,
     headers |-> headers, auth |-> RequestAuth(stored), timeout |-> None]

\* transport.py:97
StatusOk(status) == 200 <= status /\ status <= 300

\* transport.py:98-105
ErrorDetail(text) ==
    LET d == decoder(text)
        extra == IF d.raised = NoExc THEN d.value ELSE None
    IN PyOr(extra, text)

\* transport.py:97-107
StatusCheck(status, text) ==
    IF ~StatusOk(status)
    THEN [raised |-> Exc("errors.ClientError", <<PyInt(status), ErrorDetail(text)>>),
          value |-> None]
    ELSE [raised |-> NoExc, value |-> PyTuple(<<PyInt(status), headers, text>>)]

\* transport.py:108-110
ExceptClause(e) ==
    IF IsAiohttpClientError(e.exc) THEN Exc("errors.TransportError", <<>>) ELSE e

\* _perform_request without its finally clause
FinallyClauseMissing(response) == response

\* transport.py:111-113
FinallyClause(response) ==
    IF response /= None THEN [response EXCEPT !.released = TRUE] ELSE response

\* transport.py:161-165, with async_timeout turning the cancellation it
\* caused into asyncio.TimeoutError
TimeoutClause(e, expired) ==
    IF e.exc = "CancelledError" /\ expired
    THEN Exc("errors.TimeoutError", <<>>)
    ELSE e

\* DecodeBody without the check of line 175
DecodeBodyUnchecked(status, data) ==
    LET d == IF Truthy(data) THEN decoder(data)
             ELSE [raised |-> NoExc, value |-> data]
    IN IF d.raised /= NoExc
       THEN [raised |-> Exc("errors.SerializationError", <<>>), value |-> None]
       ELSE [raised |-> NoExc, value |-> PyTuple(<<PyInt(status), d.value>>)]

\* transport.py:167-179
DecodeBody(status, data) ==
    LET d == IF Truthy(data) THEN decoder(data)
             ELSE [raised |-> NoExc, value |-> data]
    IN IF d.raised /= NoExc
       THEN [raised |-> IF IsCodecError(d.raised)
                        THEN Exc("errors.SerializationError", <<>>)
                        ELSE d.raised,
             value |-> None]
       ELSE IF IsMapping(d.value) /\ Truthy(DictGet(d.value, "errors"))
       THEN [raised |-> Exc("errors.ClientError", <<d.value.map["errors"]>>),
             value |-> None]
       ELSE [raised |-> NoExc, value |-> PyTuple(<<PyInt(status), d.value>>)]

\* What perform_request does once response.text() has returned `text`.
AfterText(status, text) ==
    LET c == StatusCheck(status, text)
        e == TimeoutClause(ExceptClause(c.raised), FALSE)
    IN IF e /= NoExc THEN [raised |-> e, value |-> None]
       ELSE DecodeBody(c.value.items[1].n, c.value.items[3])

\* What perform_request does with an exception thrown at one of the awaits
\* of _perform_request; `expired` says the timeout caused it.
AfterThrow(e, expired) ==
    [raised |-> TimeoutClause(ExceptClause(e), expired), value |-> None]

(***************************************************************************)
(* Client.__init__ and Transport.__init__ (client.py:26-38,                *)
(* transport.py:33-52)                                                     *)
(***************************************************************************)
\* yarl's URL, already parsed: its userinfo and the rest
URL(user, password) ==
    [kind |-> "URL", user |-> user, password |-> password,
     rest |-> "http://127.0.0.1:7474/"]

\* yarl: with_user(None) drops the password with the user
with_user(u, user) ==
    IF user = None THEN [u EXCEPT !.user = None, !.password = None]
    ELSE [u EXCEPT !.user = user]

with_password(u, password) == [u EXCEPT !.password = password]

\* The parameters of Transport.__init__ that have no default (transport.py:33)
TransportRequired == {"url", "auth", "database", "loop"}

\* The keyword arguments Client.__init__ passes (client.py:33-38)
ClientPasses == {"url", "auth", "request_timeout", "loop"}

\* A `transport` argument: the Transport class itself (the default), or a
\* callable that calls it with `database` bound, such as
\* functools.partial(Transport, database="neo4j").
TransportClass == [name |-> "Transport", bound |-> {}]
TransportWithDatabase == [name |-> "partial", bound |-> {"database"}]

\* Python's binding of a call `transport(**kwargs)`
Binds(transport, kwargs) == TransportRequired \subseteq (kwargs \cup transport.bound)

\* client.py:28-32
InitAuth(u, a) ==
    IF Truthy(u.user) /\ Truthy(u.password)
    THEN PyTuple(<<u.user, u.password>>)
    ELSE a

InitUrl(u) ==
    IF Truthy(u.user) /\ Truthy(u.password)
    THEN with_password(with_user(u, None), None)
    ELSE u

\* The exception the construction raises, if any, and the Transport it builds.
Client__init__(u, a, transport, rt) ==
    LET stored == set_auth(InitAuth(u, a)) IN
    IF ~Binds(transport, ClientPasses)
    THEN [raised |-> Exc("TypeError", <<>>), url |-> None, auth |-> None,
          request_timeout |-> Ellipsis]
    ELSE IF stored.raised /= NoExc
    THEN [raised |-> stored.raised, url |-> None, auth |-> None,
          request_timeout |-> Ellipsis]
    ELSE [raised |-> NoExc, url |-> InitUrl(u), auth |-> stored.value,
          request_timeout |-> rt]

(***************************************************************************)
(* Client.__aexit__ and Client.user_password's last lines                  *)
(***************************************************************************)
\* __aexit__ closing only when the body raised nothing
Client__aexit__OnSuccess(exc) == [closes |-> exc = NoExc, swallows |-> FALSE]

\* client.py:150-151: whether close() is awaited, and whether the exception
\* of the body is swallowed (the return value is None)
Client__aexit__(exc) == [closes |-> TRUE, swallows |-> FALSE]

\* user_password without the test of set_auth
user_password_tail_always(c, stored) ==
    IF c.op = "user_password"
    THEN set_auth(PyTuple(<<c.args.username, c.args.password>>))
    ELSE [raised |-> NoExc, value |-> stored]

\* client.py:139-141: what the setter is given after a successful request
user_password_tail(c, stored) ==
    IF c.op = "user_password" /\ c.args.set_auth
    THEN set_auth(PyTuple(<<c.args.username, c.args.password>>))
    ELSE [raised |-> NoExc, value |-> stored]

(***************************************************************************)
(* State                                                                   *)
(***************************************************************************)
VARIABLES
    ctor,             \* "new", "ok", or the exception Client(...) raised
    init_args,        \* the arguments Client(...) was called with
    url,              \* Transport.url
    auth,             \* Transport._auth
    request_timeout,  \* Transport.request_timeout
    closed,           \* whether session.close() has run
    scope,            \* the `async with client:` block
    pc,               \* per task: "idle", "await_request", "await_text", "done"
    call,             \* per task: the Client operation and its arguments
    req,              \* per task: the arguments session.request was given
    timeout,          \* per task: _request_timeout, and whether it expired
    resp,             \* per task: the response object, or None
    out               \* per task: what the operation returned or raised

vars == <<ctor, init_args, url, auth, request_timeout, closed, scope,
          pc, call, req, timeout, resp, out>>

transportVars == <<url, auth, request_timeout, closed>>
taskVars == <<pc, call, req, timeout, resp, out>>

NoCall == [op |-> "none", args |-> None, request_timeout |-> Ellipsis]
NoTimeout == [value |-> None, expired |-> FALSE]
NoOut == [raised |-> NoExc, value |-> None]
Response(status) ==
    [kind |-> "ClientResponse", status |-> status, text |-> None,
     released |-> FALSE]

OutOfScope ==
    [state |-> "out", task |-> 0, raised |-> NoExc, propagated |-> NoExc]

(***************************************************************************)
(* Actions.  T is the set of tasks.                                        *)
(***************************************************************************)
InitOf(T) ==
    /\ ctor = "new"
    /\ init_args = None
    /\ url = None
    /\ auth = None
    /\ request_timeout = Ellipsis
    /\ closed = FALSE
    /\ scope = OutOfScope
    /\ pc = [t \in T |-> "idle"]
    /\ call = [t \in T |-> NoCall]
    /\ req = [t \in T |-> None]
    /\ timeout = [t \in T |-> NoTimeout]
    /\ resp = [t \in T |-> None]
    /\ out = [t \in T |-> NoOut]

\* Client(url=u, auth=a, transport=tr, request_timeout=rt)
Construct(u, a, tr, rt) ==
    /\ ctor = "new"
    /\ LET c == Client__init__(u, a, tr, rt) IN
       /\ ctor' = IF c.raised = NoExc THEN "ok" ELSE c.raised.exc
       /\ url' = c.url
       /\ auth' = c.auth
       /\ request_timeout' = c.request_timeout
    /\ init_args' = [url |-> u, auth |-> a, transport |-> tr, request_timeout |-> rt]
    /\ UNCHANGED <<closed, scope, taskVars>>

\* The operation ended: with an exception, or with a value.
Finish(t, raised, value) ==
    /\ pc' = [pc EXCEPT ![t] = "done"]
    /\ out' = [out EXCEPT ![t] = [raised |-> raised, value |-> value]]

\* Task t calls a Client operation, which runs up to the await of
\* session.request (client.py:50-142, transport.py:136-162 and 79-93).
\* The model covers the client's use before close().
Call(t, c) ==
    /\ ctor = "ok"
    /\ ~closed
    /\ pc[t] = "idle"
    /\ call' = [call EXCEPT ![t] = c]
    /\ LET b == ClientRequest(c)
           e == EncodeData(b.data)
       IN IF b.raised /= NoExc
          THEN /\ Finish(t, b.raised, None)
               /\ UNCHANGED <<req, timeout>>
          ELSE IF e.raised /= NoExc
          THEN /\ Finish(t, e.raised, None)
               /\ UNCHANGED <<req, timeout>>
          ELSE /\ pc' = [pc EXCEPT ![t] = "await_request"]
               /\ req' = [req EXCEPT ![t] =
                            SessionRequest(b.method,
                                           RequestUrl(url, "neo4j", b.path),
                                           e.value, auth)]
               /\ timeout' = [timeout EXCEPT ![t] =
                                [value |-> ResolveTimeout(c.request_timeout,
                                                          request_timeout),
                                 expired |-> FALSE]]
               /\ out' = out
    /\ UNCHANGED <<ctor, init_args, transportVars, scope, resp>>

\* session.request returns a response (transport.py:85-93)
Respond(t, status) ==
    /\ pc[t] = "await_request"
    /\ resp' = [resp EXCEPT ![t] = Response(status)]
    /\ pc' = [pc EXCEPT ![t] = "await_text"]
    /\ UNCHANGED <<ctor, init_args, transportVars, scope, call, req, timeout, out>>

\* An exception is thrown into _perform_request at the await it is
\* suspended on (transport.py:108-113, 161-165).
Throw(t, e, expired) ==
    /\ resp' = [resp EXCEPT ![t] = FinallyClause(resp[t])]
    /\ timeout' = [timeout EXCEPT ![t].expired = expired]
    /\ Finish(t, AfterThrow(e, expired).raised, None)
    /\ UNCHANGED <<ctor, init_args, transportVars, scope, call, req>>

\* session.request raises an aiohttp.ClientError
RequestFails(t) ==
    /\ pc[t] = "await_request"
    /\ Throw(t, Exc("aiohttp.ClientError", <<>>), FALSE)

\* response.text() raises an aiohttp.ClientError
TextFails(t) ==
    /\ pc[t] = "await_text"
    /\ Throw(t, Exc("aiohttp.ClientError", <<>>), FALSE)

\* The timeout expires: async_timeout cancels the task, which is suspended
\* on one of the two awaits.
Expire(t) ==
    /\ pc[t] \in {"await_request", "await_text"}
    /\ timeout[t].value /= None
    /\ Throw(t, Exc("CancelledError", <<>>), TRUE)

\* response.text() returns, and the operation runs to its end
\* (transport.py:95-113 and 163-179, then the Client method's last lines).
ReadText(t, text) ==
    /\ pc[t] = "await_text"
    /\ resp' = [resp EXCEPT ![t] = FinallyClause([resp[t] EXCEPT !.text = text])]
    /\ LET r == AfterText(resp[t].status, text)
           tail == user_password_tail(call[t], auth)
       IN IF r.raised /= NoExc
          THEN /\ Finish(t, r.raised, None)
               /\ auth' = auth
          ELSE IF tail.raised /= NoExc
          THEN /\ Finish(t, tail.raised, None)
               /\ auth' = auth
          ELSE /\ Finish(t, NoExc, r.value.items[2])
               /\ auth' = tail.value
    /\ UNCHANGED <<ctor, init_args, url, request_timeout, closed, scope, call,
                   req, timeout>>

\* The caller takes the result; the task is free for the next operation.
Return(t) ==
    /\ pc[t] = "done"
    /\ pc' = [pc EXCEPT ![t] = "idle"]
    /\ call' = [call EXCEPT ![t] = NoCall]
    /\ req' = [req EXCEPT ![t] = None]
    /\ timeout' = [timeout EXCEPT ![t] = NoTimeout]
    /\ resp' = [resp EXCEPT ![t] = None]
    /\ out' = [out EXCEPT ![t] = NoOut]
    /\ UNCHANGED <<ctor, init_args, transportVars, scope>>

\* client.auth = a (client.py:43-44, transport.py:57-67)
SetAuth(a) ==
    /\ ctor = "ok"
    /\ LET r == set_auth(a) IN
       auth' = IF r.raised = NoExc THEN r.value ELSE auth
    /\ UNCHANGED <<ctor, init_args, url, request_timeout, closed, scope, taskVars>>

\* await client.close() (client.py:144-145, transport.py:181-182)
Close ==
    /\ ctor = "ok"
    /\ scope.state = "out"
    /\ ~closed
    /\ closed' = TRUE
    /\ UNCHANGED <<ctor, init_args, url, auth, request_timeout, scope, taskVars>>

\* `async with client:` is entered; task t runs the body (client.py:147-148)
AEnter(t) ==
    /\ ctor = "ok"
    /\ ~closed
    /\ scope.state = "out"
    /\ pc[t] = "idle"
    /\ scope' = [state |-> "in", task |-> t, raised |-> NoExc, propagated |-> NoExc]
    /\ UNCHANGED <<ctor, init_args, transportVars, taskVars>>

\* The block is left: the body ended, or an operation awaited in it raised
\* (client.py:150-151).
AExit(t) ==
    /\ scope.state = "in"
    /\ scope.task = t
    /\ \/ pc[t] = "idle"
       \/ pc[t] = "done" /\ out[t].raised /= NoExc
    /\ LET x == Client__aexit__(out[t].raised) IN
       /\ closed' = (closed \/ x.closes)
       /\ scope' = [state |-> "left", task |-> t, raised |-> out[t].raised,
                    propagated |-> IF x.swallows THEN NoExc ELSE out[t].raised]
    /\ pc' = [pc EXCEPT ![t] = "idle"]
    /\ call' = [call EXCEPT ![t] = NoCall]
    /\ req' = [req EXCEPT ![t] = None]
    /\ timeout' = [timeout EXCEPT ![t] = NoTimeout]
    /\ resp' = [resp EXCEPT ![t] = None]
    /\ out' = [out EXCEPT ![t] = NoOut]
    /\ UNCHANGED <<ctor, init_args, url, auth, request_timeout>>

\* Every step, for the tasks and the inputs of I.
NextOf(I) ==
    \/ \E u \in I.urls, a \in I.auths, tr \in I.transports, rt \in I.timeouts :
          Construct(u, a, tr, rt)
    \/ \E t \in I.tasks, c \in I.calls : Call(t, c)
    \/ \E t \in I.tasks, status \in I.statuses : Respond(t, status)
    \/ \E t \in I.tasks : RequestFails(t)
    \/ \E t \in I.tasks : TextFails(t)
    \/ \E t \in I.tasks : Expire(t)
    \/ \E t \in I.tasks, text \in I.texts : ReadText(t, text)
    \/ \E t \in I.tasks : Return(t)
    \/ \E a \in I.setauths : SetAuth(a)
    \/ Close
    \/ \E t \in I.tasks : AEnter(t)
    \/ \E t \in I.tasks : AExit(t)

(***************************************************************************)
(* Bounds and inputs                                                       *)
(***************************************************************************)
NumTasks == 2
MaxStatements == 2

Tasks == 1..NumTasks
OneTask == {1}

UserN == PyStr(<<"n">>)
PassP == PyStr(<<"p">>)
PassQ == PyStr(<<"q">>)

Urls == {URL(None, None), URL(UserN, None), URL(UserN, PassP)}
Timeouts == {Ellipsis, None, PyFloat(5)}
Transports == {TransportClass, TransportWithDatabase}
AuthValues ==
    {None, PyTuple(<<UserN, PassP>>), PyStr(<<"n", ":", "q">>),
     PyStr(<<"n", "q">>)}

StatementValues ==
    {PyStr(<<"s">>),
     PyDict(Map1("statement", PyStr(<<"s">>))),
     PyDict(Map1("parameters", PyDict(EmptyMap))),
     PyDict(Map1("statements", PyList(<<>>))),
     PyDict(Map2("statement", PyStr(<<"s">>), "statements", PyList(<<>>)))}

StatementLists == UNION {[1..n -> StatementValues] : n \in 0..MaxStatements}

CallOf(op, args, rt) == [op |-> op, args |-> args, request_timeout |-> rt]

GetCalls(rts) ==
    {CallOf(op, None, rt) : op \in {"data", "indexes", "constraints"}, rt \in rts}

CypherCalls(rts) ==
    {CallOf("cypher", [query |-> q, params |-> ps], rt) :
        q \in {PyStr(<<"q">>), PyDict(Map1("query", PyStr(<<"q">>))), PyObject},
        ps \in {PyDict(EmptyMap), PyDict(Map1("x", PyInt(1)))},
        rt \in rts}

CommitCalls(rts) ==
    {CallOf("transaction_commit", [statements |-> ss], rt) :
        ss \in StatementLists, rt \in rts}

UserPasswordCalls(passwords, rts) ==
    {CallOf("user_password",
            [password |-> pw, username |-> UserN, set_auth |-> sa], rt) :
        pw \in passwords, sa \in BOOLEAN, rt \in rts}

\* Several operations in flight, credentials changing under them.
Inputs ==
    [tasks |-> Tasks,
     urls |-> {URL(UserN, PassP)},
     auths |-> {None},
     transports |-> Transports,
     timeouts |-> {PyFloat(5)},
     calls |-> {CallOf("data", None, Ellipsis),
                CallOf("user_password",
                       [password |-> PassQ, username |-> UserN,
                        set_auth |-> TRUE], Ellipsis)},
     statuses |-> {200, 404},
     texts |-> {TextResults},
     setauths |-> {PyTuple(<<UserN, PassP>>)}]

\* One operation at a time: every construction, operation and timeout.
RequestInputs ==
    [tasks |-> OneTask,
     urls |-> Urls,
     auths |-> {None, PyTuple(<<UserN, PassP>>)},
     transports |-> Transports,
     timeouts |-> Timeouts,
     calls |-> GetCalls(Timeouts) \cup CypherCalls(Timeouts)
               \cup CommitCalls(Timeouts)
               \cup UserPasswordCalls({PassQ}, Timeouts),
     statuses |-> {200},
     texts |-> {TextResults},
     setauths |-> {PyStr(<<"n", ":", "q">>)}]

\* One operation at a time: every status and body.
ResponseInputs ==
    [tasks |-> OneTask,
     urls |-> {URL(None, None)},
     auths |-> {PyTuple(<<UserN, PassP>>)},
     transports |-> Transports,
     timeouts |-> {Ellipsis, PyFloat(5)},
     calls |-> GetCalls({Ellipsis}) \cup CypherCalls({Ellipsis})
               \cup UserPasswordCalls({PassP, PassQ}, {Ellipsis}),
     statuses |-> {199, 200, 204, 299, 300, 301, 404, 500},
     texts |-> {TextEmpty, TextEmptyObject, TextEmptyArray, TextZero, TextFalse,
                TextNull, TextArray, TextResults, TextNoErrors, TextErrors,
                TextHtml},
     setauths |-> AuthValues]

Init == InitOf(Tasks)
Next == NextOf(Inputs)
Spec == Init /\ [][Next]_vars

InitOne == InitOf(OneTask)
NextRequest == NextOf(RequestInputs)
SpecRequest == InitOne /\ [][NextRequest]_vars

NextResponse == NextOf(ResponseInputs)
SpecResponse == InitOne /\ [][NextResponse]_vars

(***************************************************************************)
(* Properties                                                              *)
(***************************************************************************)
AllTasks == DOMAIN pc

\* Task t's operation has ended and had read the body of a response.
BodyRead(t) == pc[t] = "done" /\ resp[t] /= None /\ resp[t].text /= None

InSuccessRange(status) == 200 <= status /\ status < 300

\* C1: a response whose status is outside [200,300), 300 included, makes the
\* call fail with ClientError.
C1_NonSuccessRaisesClientError ==
    \A t \in AllTasks :
        (BodyRead(t) /\ ~InSuccessRange(resp[t].status))
            => out[t].raised.exc = "errors.ClientError"

\* C2: a success-status response whose body decodes to a mapping with a
\* non-empty `errors` entry makes the call fail with ClientError carrying that
\* entry; a mapping whose `errors` is absent or empty is returned.
C2_EmbeddedErrors ==
    \A t \in AllTasks :
        LET d == decoder(resp[t].text) IN
        (BodyRead(t) /\ InSuccessRange(resp[t].status) /\ d.raised = NoExc
                     /\ IsMapping(d.value))
            => IF "errors" \in DOMAIN d.value.map /\ Truthy(d.value.map["errors"])
               THEN out[t].raised = Exc("errors.ClientError", <<d.value.map["errors"]>>)
               ELSE out[t].raised = NoExc /\ out[t].value = d.value

\* C2: a 200 response with a non-empty `errors` list has raised ClientError
C2_Witness ==
    \E t \in AllTasks :
        /\ BodyRead(t)
        /\ resp[t].status = 200
        /\ resp[t].text = TextErrors
        /\ out[t].raised.exc = "errors.ClientError"

\* C3: a call whose timeout expired, at either await, ends with TimeoutError
\* and leaves no response unreleased.
C3_TimeoutReleases ==
    \A t \in AllTasks :
        (pc[t] = "done" /\ timeout[t].expired)
            => /\ out[t].raised.exc = "errors.TimeoutError"
               /\ (resp[t] = None \/ resp[t].released)

\* C3: a timeout expired while the body of a response was being read
C3_Witness ==
    \E t \in AllTasks :
        /\ pc[t] = "done"
        /\ timeout[t].expired
        /\ resp[t] /= None
        /\ resp[t].released

\* C4: when the `async with` block has been left, close() has run, and what
\* the body raised is what the caller gets.
C4_ScopeCloses ==
    scope.state = "left" => (closed /\ scope.propagated = scope.raised)

\* C4: the block was left by a ClientError raised in its body
C4_Witness ==
    /\ scope.state = "left"
    /\ scope.raised.exc = "errors.ClientError"
    /\ closed

\* C5: user_password sends its request with the credentials stored when it
\* is called; the stored credentials become (username, password) at the step
\* that ends the call without an error, if set_auth is true, and no other
\* step of the call changes them.
C5_Step(t) ==
    LET c == call'[t] IN
    (c.op = "user_password" /\ pc'[t] /= pc[t])
        => /\ (pc'[t] = "await_request") => req'[t].auth = auth
           /\ IF pc'[t] = "done" /\ out'[t].raised = NoExc /\ c.args.set_auth
              THEN auth' = BasicAuth(c.args.username, c.args.password)
              ELSE auth' = auth

\* C5, over every step of every task
C5_PasswordChange == [][\A t \in AllTasks : C5_Step(t)]_vars

\* C5: a user_password with set_auth has ended well: the new pair is stored,
\* and its request carried the old one
C5_Witness ==
    \E t \in AllTasks :
        /\ pc[t] = "done"
        /\ call[t].op = "user_password"
        /\ call[t].args.set_auth
        /\ out[t].raised = NoExc
        /\ auth = BasicAuth(UserN, PassQ)
        /\ req[t].auth = BasicAuth(UserN, PassP)

\* C6: transaction_commit, unless given the one mapping that holds
\* `statements`, raises and sends nothing when some argument is a mapping
\* without `statement`; otherwise it sends {"statements": [...]} with every
\* string wrapped as {"statement": s} and every mapping as it is, in order.
HasBadStatement(ss) ==
    \E i \in 1..Len(ss) : IsMapping(ss[i]) /\ "statement" \notin DOMAIN ss[i].map

WrappedStatements(ss) ==
    [i \in 1..Len(ss) |->
        IF IsMapping(ss[i]) THEN ss[i] ELSE PyDict(Map1("statement", ss[i]))]

\* C6, for every transaction_commit in progress or ended
C6_CommitBody ==
    \A t \in AllTasks :
        LET ss == call[t].args.statements IN
        (call[t].op = "transaction_commit" /\ ~IsStatementsForm(ss))
            => IF HasBadStatement(ss)
               THEN pc[t] = "done" /\ out[t].raised /= NoExc /\ req[t] = None
               ELSE /\ req[t] /= None
                    /\ req[t].data = PyBytes(JsonText(PyDict(
                           Map1("statements", PyList(WrappedStatements(ss))))))

\* C6: a bad mapping after a valid string has raised ValueError
C6_Witness ==
    \E t \in AllTasks :
        /\ call[t].op = "transaction_commit"
        /\ Len(call[t].args.statements) = 2
        /\ ~IsMapping(call[t].args.statements[1])
        /\ HasBadStatement(call[t].args.statements)
        /\ out[t].raised.exc = "ValueError"

\* C7: Client(url) with the default transport and a URL that embeds
\* user:password@ succeeds, stores that pair and keeps no userinfo in the URL.
C7_DefaultConstruction ==
    (/\ ctor /= "new"
     /\ init_args.transport = TransportClass
     /\ Truthy(init_args.url.user)
     /\ Truthy(init_args.url.password))
        => /\ ctor = "ok"
           /\ auth = BasicAuth(init_args.url.user, init_args.url.password)
           /\ url.user = None
           /\ url.password = None

\* C8: the timeout of a call is the per-call value, explicit None included,
\* when one is given; else the instance default; else none at all.  A call
\* with no timeout never expires.
C8_TimeoutResolution ==
    \A t \in AllTasks :
        LET given == call[t].request_timeout IN
        req[t] /= None
            => /\ given /= Ellipsis => timeout[t].value = given
               /\ (given = Ellipsis /\ request_timeout /= Ellipsis)
                      => timeout[t].value = request_timeout
               /\ (given = Ellipsis /\ request_timeout = Ellipsis)
                      => timeout[t].value = None
               /\ timeout[t].expired => timeout[t].value /= None

\* C8: an explicit None in force on a client whose default is 5 seconds
C8_Witness ==
    \E t \in AllTasks :
        /\ pc[t] = "await_request"
        /\ call[t].request_timeout = None
        /\ request_timeout = PyFloat(5)
        /\ timeout[t].value = None

\* C9: a request is sent with the credentials stored when it is issued and
\* keeps them whatever is stored later; the stored credentials change only in
\* a step of the setter or in the successful end of a user_password with
\* set_auth.
C9_Issued(t) ==
    (pc[t] = "idle" /\ pc'[t] = "await_request") => req'[t].auth = auth

C9_Kept(t) ==
    (req[t] /= None /\ pc'[t] /= "idle") => req'[t] = req[t]

C9_Writers ==
    auth' /= auth
        => \/ UNCHANGED <<ctor, init_args, url, request_timeout, closed, scope,
                          taskVars>>
           \/ ctor = "new"
           \/ \E t \in AllTasks :
                /\ call[t].op = "user_password"
                /\ call[t].args.set_auth
                /\ pc[t] = "await_text"
                /\ pc'[t] = "done"
                /\ out'[t].raised = NoExc

\* C9, over every step
C9_Credentials ==
    [][/\ \A t \in AllTasks : C9_Issued(t) /\ C9_Kept(t)
       /\ C9_Writers]_vars

\* C9: two requests in flight with different credentials, the stored
\* pair changed since the later one was issued
C9_Witness ==
    \E t1, t2 \in AllTasks :
        /\ pc[t1] = "await_text"
        /\ pc[t2] = "await_request"
        /\ req[t1].auth = BasicAuth(UserN, PassP)
        /\ req[t2].auth = BasicAuth(UserN, PassQ)
        /\ auth = BasicAuth(UserN, PassP)

\* C10: the ClientError of a non-success status carries the decoded body
\* whenever the body decodes, whatever it decodes to, and the raw text only
\* when it does not.
C10_DecodedDetail ==
    \A t \in AllTasks :
        LET d == decoder(resp[t].text) IN
        (/\ BodyRead(t)
         /\ out[t].raised.exc = "errors.ClientError"
         /\ Len(out[t].raised.args) = 2)
            => out[t].raised.args[2] =
                   IF d.raised = NoExc THEN d.value ELSE resp[t].text

====
